---- MODULE Spec2Model ----
(***************************************************************************)
(* Review scheduler of OpenLexicon (src/utils/wordbank.ts): the word bank  *)
(* kept under the "wordbank" storage key, the interval model, priority     *)
(* scoring, selection of the next word and the review-outcome update.      *)
(*                                                                         *)
(* Units.  Time is counted in units of 864,000 ms (1/100 of a day), so     *)
(* that every interval the code computes for a difficulty with one decimal *)
(* is a whole number of units.  Difficulty is counted in tenths (10 = 1.0, *)
(* 50 = 5.0).  Priorities are exact rationals counted in twentieths.       *)
(* The code computes in IEEE doubles; the model computes the same          *)
(* expressions exactly, so a rounding residue of the order of 1e-16 (as in *)
(* 1.1 - 0.1) is not represented.                                          *)
(*                                                                         *)
(* Six specifications share the operators: Spec is the synchronous word    *)
(* bank (localStorage) with all its operations, SpecReview the review      *)
(* history of one record, SpecAsync the asynchronous word bank             *)
(* (localforage) with overlapping calls of updateWordReview, addWord,      *)
(* removeWord and setWords, SpecCalc the interval model and priority       *)
(* scoring called as functions, SpecSelect the scoring loop of one         *)
(* selection, entry by entry, SpecLearn the learn page over the word bank, *)
(* await by await.                                                         *)
(*                                                                         *)
(* hist, lastOp and calls are history variables: hist[k] records what was  *)
(* reported for the k-th record and whether setWords brought it in, lastOp *)
(* the operation that led to the current state, with the record it found,  *)
(* the value it returned and the times it read the clock at, calls the     *)
(* number of asynchronous calls made.                                      *)
(* calc holds the last call of a function with its arguments and value,    *)
(* scan the entries one selection has scored so far, page the state of the *)
(* learn page (its step, isLoading, what it awaits), env the word bank     *)
(* module the page is built over and whether an AI is configured.          *)
(***************************************************************************)
EXTENDS Integers, Sequences, FiniteSets, TLC

VARIABLES store, now, ticks, nextId, hist, lastOp, pc, req, snapshot, calls,
          calc, scan, page, env

vars == <<store, now, ticks, nextId, hist, lastOp, pc, req, snapshot, calls,
          calc, scan, page, env>>

(* ---------------------------- bounds ----------------------------------- *)
(* The word bank as a whole: records held, records ever added, reviews     *)
(* recorded in the stored collection, moves of the clock.                  *)
MaxWords == 2
MaxIds == 2
MaxShown == 2
MaxTicks == 1
(* The review history of one record: reviews, moves of the clock.          *)
MaxReviews == 5
MaxReviewTicks == 3
(* Asynchronous calls of updateWordReview; asynchronous calls of addWord,  *)
(* removeWord and setWords.                                                *)
MaxCalls == 3
MaxEdits == 1
(* Function calls: the largest shownTimes passed.  The scoring loop: moves *)
(* of the clock.                                                           *)
MaxShownArg == 8
MaxScanTicks == 2
(* The learn page: reviews recorded, moves of the clock.                   *)
MaxLearnShown == 3
MaxLearnTicks == 1

(* ------------------------ inputs of the model -------------------------- *)
Words == {"cat", "dog"}
Absent == "emu"
Procs == {1, 2}

(* A word string that differs from a stored word in letter case only, and  *)
(* String.prototype.toLowerCase on the words of the model.                 *)
CaseVariants == {"Cat"}
toLowerCase(w) == IF w = "Cat" THEN "cat" ELSE w

(* One day (24 * 60 * 60 * 1000 ms) in time units.                         *)
BaseInterval == 100
FiveYears == 1826 * BaseInterval

(* Difficulties a caller creates a record with: the add operation's        *)
(* default 0.0, the lowest documented level 1.0, and 4.9.                  *)
InitDifficulties == {0, 10, 49}

(* Difficulties addWord is called with in the word bank as a whole: the    *)
(* default 0.0 and the level 1.0.                                          *)
AddDifficulties == {0, 10}

(* Date.now() when the program starts (2025-01-01T00:00Z) and the steps by *)
(* which it moves on: one day, five years.                                 *)
StartNow == 20089 * BaseInterval
Deltas == {BaseInterval, FiveYears}

(* The same in the word bank as a whole, where the clock also moves within *)
(* a selection.                                                            *)
BankDeltas == {FiveYears}

Max(a, b) == IF a >= b THEN a ELSE b
Min(a, b) == IF a <= b THEN a ELSE b

NoWord == [id |-> 0, word |-> "", definition |-> "", example |-> "",
           last_shown_timestamp |-> 0, last_correct_timestamp |-> 0,
           shown_times |-> 0, difficulty |-> 0]

(* The texts a caller stores with a word: "cat" comes with a definition,   *)
(* "dog" with an example only.                                             *)
DefinitionOf(w) == IF w = "cat" THEN "a feline" ELSE ""
ExampleOf(w) == IF w = "dog" THEN "the dog barks" ELSE ""

(* A definition of blanks only, and String.prototype.trim on the texts of   *)
(* the model.                                                              *)
Blank == "  "
trim(s) == IF s = Blank THEN "" ELSE s

(* A record as the add operation creates it.                               *)
NewWord(i, w, d) ==
    [id |-> i, word |-> w, definition |-> DefinitionOf(w),
     example |-> ExampleOf(w), last_shown_timestamp |-> 0,
     last_correct_timestamp |-> 0, shown_times |-> 0, difficulty |-> d]

NewHist == [lastOutcome |-> "none", strict |-> TRUE, reported |-> 0,
            imported |-> FALSE]

(* A collection a caller hands to setWords that no sequence of addWord and *)
(* updateWordReview produced: a record with difficulty 9.9 and shown_times *)
(* 7, last shown a day before the program starts, and a new record.        *)
ImportedWords ==
    <<[id |-> 9, word |-> "cat", definition |-> DefinitionOf("cat"),
       example |-> ExampleOf("cat"),
       last_shown_timestamp |-> StartNow - BaseInterval,
       last_correct_timestamp |-> 0, shown_times |-> 7, difficulty |-> 99],
      NewWord(8, "dog", 10)>>

Reverse(s) == [k \in 1..Len(s) |-> s[Len(s) + 1 - k]]

(* Arguments of the function calls.  Difficulties 0.0 to 6.0 in tenths for *)
(* the interval model; for priority scoring, records as the word bank      *)
(* holds them (never shown, or shown with the last correct answer no later *)
(* than the last showing) and the time Date.now() gives.                   *)
CalcDifficulties == 0..60
PriorityDifficulties == {0, 10, 25, 50, 60}
PastTimes == {StartNow - 200 * BaseInterval, StartNow - BaseInterval, StartNow}
CalcNows == {StartNow, StartNow + BaseInterval}
CalcWords ==
    {NewWord(1, "cat", d) : d \in PriorityDifficulties}
    \cup
    {word \in
        {[id |-> 1, word |-> "cat", definition |-> DefinitionOf("cat"),
          example |-> ExampleOf("cat"), last_shown_timestamp |-> ls,
          last_correct_timestamp |-> lc, shown_times |-> n, difficulty |-> d] :
            ls \in PastTimes, lc \in {0} \cup PastTimes,
            n \in 1..MaxShownArg, d \in PriorityDifficulties} :
        word.last_correct_timestamp <= word.last_shown_timestamp}

NoPriority == [q |-> 0, r |-> 0, i |-> 0]
NoCall == [fn |-> "none", difficulty |-> 0, shownTimes |-> 0,
           wasCorrect |-> FALSE, word |-> NoWord, t |-> 0,
           interval |-> 0, priority |-> NoPriority]
NoScan == [active |-> FALSE, words |-> <<>>, scored |-> <<>>]

(* The learn page before its effect has run: currentStep null, isLoading,  *)
(* nothing awaited, no outcome reported.  While createKnownWordStep is     *)
(* awaited, word is the record it was called with.                         *)
NoPage == [type |-> "loading", word |-> NoWord, options |-> 0,
           isLoading |-> TRUE, wait |-> "none", reports |-> 0]

(* The word bank module behind "../utils/wordbank" and the outcome of      *)
(* createAIInstance(): an instance when an API key is configured.          *)
LocalStorage == "localStorage"
Localforage == "localforage"
Env(bank, ai) == [bank |-> bank, ai |-> ai]

(* ------------------------- interval model ------------------------------ *)
Intervals == <<1, 3, 7, 14, 30, 90, 180>>

(* Mutant: the short interval with the difficulty taken whole.             *)
calculateNextIntervalLongMiss(difficulty, shownTimes, wasCorrect) ==
    IF ~wasCorrect
    THEN (BaseInterval * (10 * difficulty + 10)) \div 100
    ELSE LET intervalIndex == Min(shownTimes, Len(Intervals) - 1)
             baseMultiplier == Intervals[intervalIndex + 1]
             difficultyMultiplier == Max(50, 200 - 3 * difficulty)
         IN (BaseInterval * baseMultiplier * difficultyMultiplier) \div 100

(* Mutant: the index capped one step early (90 days).                      *)
calculateNextIntervalCapEarly(difficulty, shownTimes, wasCorrect) ==
    IF ~wasCorrect
    THEN (BaseInterval * (difficulty + 10)) \div 100
    ELSE LET intervalIndex == Min(shownTimes, Len(Intervals) - 2)
             baseMultiplier == Intervals[intervalIndex + 1]
             difficultyMultiplier == Max(50, 200 - 3 * difficulty)
         IN (BaseInterval * baseMultiplier * difficultyMultiplier) \div 100

(* Mutant: the short interval scaled by the progressive step.              *)
calculateNextIntervalStepped(difficulty, shownTimes, wasCorrect) ==
    LET intervalIndex == Min(shownTimes, Len(Intervals) - 1)
        baseMultiplier == Intervals[intervalIndex + 1]
        difficultyMultiplier == Max(50, 200 - 3 * difficulty)
    IN IF ~wasCorrect
       THEN (BaseInterval * baseMultiplier * (difficulty + 10)) \div 100
       ELSE (BaseInterval * baseMultiplier * difficultyMultiplier) \div 100

(* Mutant: the short interval with an offset of 0.01 instead of 0.1.       *)
calculateNextIntervalSmallOffset(difficulty, shownTimes, wasCorrect) ==
    IF ~wasCorrect
    THEN (BaseInterval * (difficulty + 1)) \div 100
    ELSE LET intervalIndex == Min(shownTimes, Len(Intervals) - 1)
             baseMultiplier == Intervals[intervalIndex + 1]
             difficultyMultiplier == Max(50, 200 - 3 * difficulty)
         IN (BaseInterval * baseMultiplier * difficultyMultiplier) \div 100

calculateNextInterval(difficulty, shownTimes, wasCorrect) ==
    IF ~wasCorrect
    THEN (BaseInterval * (difficulty + 10)) \div 100
    ELSE LET intervalIndex == Min(shownTimes, Len(Intervals) - 1)
             baseMultiplier == Intervals[intervalIndex + 1]
             difficultyMultiplier == Max(50, 200 - 3 * difficulty)
         IN (BaseInterval * baseMultiplier * difficultyMultiplier) \div 100

(* ------------------------- priority scoring ---------------------------- *)
(* Mutant: a strict comparison of the two timestamps.                      *)
wasLastCorrectStrict(word) ==
    word.last_correct_timestamp > word.last_shown_timestamp

wasLastCorrect(word) ==
    word.last_correct_timestamp >= word.last_shown_timestamp

(* Mutant: the two bonuses applied independently of each other.            *)
NewBonusBoth(word) ==
    (IF word.shown_times = 0 THEN 100 ELSE 0)
    + (IF word.shown_times < 3 THEN 10 ELSE 0)

NewBonus(word) ==
    IF word.shown_times = 0 THEN 100
    ELSE IF word.shown_times < 3 THEN 10 ELSE 0

(* Mutant: the comparison of the two ages turned round.                    *)
MissBonusTurned(word, t) ==
    IF ~wasLastCorrect(word)
       /\ t - word.last_correct_timestamp < t - word.last_shown_timestamp
    THEN 5 ELSE 0

MissBonus(word, t) ==
    IF ~wasLastCorrect(word)
       /\ t - word.last_correct_timestamp > t - word.last_shown_timestamp
    THEN 5 ELSE 0

LongBonus(word, t) ==
    IF t - word.last_shown_timestamp > 180 * BaseInterval THEN 2 ELSE 0

(* The score as q + r/i twentieths, 0 <= r < i.                            *)
calculateWordPriority(word, t) ==
    LET timeSinceLastShown == t - word.last_shown_timestamp
        expectedInterval == calculateNextInterval(word.difficulty,
                                word.shown_times, wasLastCorrect(word))
        fixed == 20 * (NewBonus(word) + MissBonus(word, t) + LongBonus(word, t))
                 + word.difficulty
    IN [q |-> (20 * timeSinceLastShown) \div expectedInterval + fixed,
        r |-> (20 * timeSinceLastShown) % expectedInterval,
        i |-> expectedInterval]

PriorityLess(a, b) ==
    \/ a.q < b.q
    \/ a.q = b.q /\ a.r * b.i < b.r * a.i

PriorityGeq(a, b) == ~PriorityLess(a, b)

(* ----------------------------- selection ------------------------------- *)
(* compare(a, b) = b.priority - a.priority: a stays before b unless b is   *)
(* strictly greater.                                                       *)
ComesBefore(a, b) == ~PriorityLess(a.priority, b.priority)

RECURSIVE InsertSorted(_, _)
InsertSorted(x, s) ==
    IF s = <<>> THEN <<x>>
    ELSE IF ComesBefore(Head(s), x)
         THEN <<Head(s)>> \o InsertSorted(x, Tail(s))
         ELSE <<x>> \o s

RECURSIVE SortByPriority(_)
SortByPriority(s) ==
    IF s = <<>> THEN <<>>
    ELSE InsertSorted(s[Len(s)], SortByPriority(SubSeq(s, 1, Len(s) - 1)))

(* The values Date.now() gives to the calls of calculateWordPriority in    *)
(* one selection over n entries: the k-th call of the map callback reads   *)
(* the clock anew, and between two calls the clock stands still or moves   *)
(* on by ClockStep; it moves at most `moves` times in all.                 *)
ClockStep == BaseInterval \div 100

RECURSIVE ClockReads(_, _, _)
ClockReads(n, t, moves) ==
    IF n = 0 THEN {<<>>}
    ELSE IF n = 1 THEN {<<t>>}
    ELSE {<<t>> \o rest :
             rest \in ClockReads(n - 1, t, moves)
                      \cup (IF moves > 0
                            THEN ClockReads(n - 1, t + ClockStep, moves - 1)
                            ELSE {})}

LastRead(times, t) == IF Len(times) = 0 THEN t ELSE times[Len(times)]

(* Mutant: the empty-collection guard taken for a one-element collection   *)
(* as well.                                                                *)
SelectNextNullOnOne(words, times) ==
    IF Len(words) <= 1 THEN NoWord
    ELSE LET wordsWithPriority ==
                 [k \in 1..Len(words) |->
                     [word |-> words[k],
                      priority |-> calculateWordPriority(words[k], times[k])]]
         IN SortByPriority(wordsWithPriority)[1].word

(* Mutant: the last element of the sorted array instead of the first.      *)
SelectNextLast(words, times) ==
    IF Len(words) = 0 THEN NoWord
    ELSE LET wordsWithPriority ==
                 [k \in 1..Len(words) |->
                     [word |-> words[k],
                      priority |-> calculateWordPriority(words[k], times[k])]]
         IN SortByPriority(wordsWithPriority)[Len(words)].word

SelectNext(words, times) ==
    IF Len(words) = 0 THEN NoWord
    ELSE LET wordsWithPriority ==
                 [k \in 1..Len(words) |->
                     [word |-> words[k],
                      priority |-> calculateWordPriority(words[k], times[k])]]
         IN SortByPriority(wordsWithPriority)[1].word

(* ------------------------ review-outcome update ------------------------ *)
(* Mutant: the -1 of a failed search used as an index from the end.        *)
findIndexFromEnd(words, wordStr) ==
    IF \E k \in 1..Len(words) : words[k].word = wordStr
    THEN CHOOSE k \in 1..Len(words) :
            /\ words[k].word = wordStr
            /\ \A j \in 1..(k - 1) : words[j].word # wordStr
    ELSE Len(words)

findIndex(words, wordStr) ==
    IF \E k \in 1..Len(words) : words[k].word = wordStr
    THEN CHOOSE k \in 1..Len(words) :
            /\ words[k].word = wordStr
            /\ \A j \in 1..(k - 1) : words[j].word # wordStr
    ELSE 0

(* Mutant: the count tested as it was before the increment.                *)
CorrectDifficultyBeforeIncrement(shownAfter, difficulty) ==
    IF shownAfter - 1 > 3 /\ difficulty > 10
    THEN Max(10, difficulty - 1)
    ELSE difficulty

CorrectDifficulty(shownAfter, difficulty) ==
    IF shownAfter > 3 /\ difficulty > 10
    THEN Max(10, difficulty - 1)
    ELSE difficulty

(* Mutant: the increase without its cap.                                   *)
IncorrectDifficultyNoCap(difficulty) == difficulty + 2

IncorrectDifficulty(difficulty) == Min(50, difficulty + 2)

(* Mutant: last_shown_timestamp is written on an incorrect outcome only.    *)
ReviewedShownOnIncorrectOnly(word, wasCorrect, t) ==
    IF wasCorrect
    THEN [word EXCEPT !.shown_times = word.shown_times + 1,
                      !.last_correct_timestamp = t,
                      !.difficulty = CorrectDifficulty(word.shown_times + 1,
                                                       word.difficulty)]
    ELSE [word EXCEPT !.last_shown_timestamp = t,
                      !.shown_times = word.shown_times + 1,
                      !.difficulty = IncorrectDifficulty(word.difficulty)]

(* Mutant: last_shown_timestamp is written on a correct outcome only.      *)
ReviewedShownOnCorrectOnly(word, wasCorrect, t) ==
    IF wasCorrect
    THEN [word EXCEPT !.last_shown_timestamp = t,
                      !.shown_times = word.shown_times + 1,
                      !.last_correct_timestamp = t,
                      !.difficulty = CorrectDifficulty(word.shown_times + 1,
                                                       word.difficulty)]
    ELSE [word EXCEPT !.shown_times = word.shown_times + 1,
                      !.difficulty = IncorrectDifficulty(word.difficulty)]

(* Mutant: the record rebuilt from its scheduling fields, its texts lost.   *)
ReviewedDropsTexts(word, wasCorrect, t) ==
    [id |-> word.id, word |-> word.word, definition |-> "", example |-> "",
     last_shown_timestamp |-> t,
     last_correct_timestamp |-> IF wasCorrect THEN t
                                ELSE word.last_correct_timestamp,
     shown_times |-> word.shown_times + 1,
     difficulty |-> IF wasCorrect
                    THEN CorrectDifficulty(word.shown_times + 1, word.difficulty)
                    ELSE IncorrectDifficulty(word.difficulty)]

(* Mutant: the count is incremented on a correct outcome only.             *)
ReviewedCountCorrectOnly(word, wasCorrect, t) ==
    IF wasCorrect
    THEN [word EXCEPT !.last_shown_timestamp = t,
                      !.shown_times = word.shown_times + 1,
                      !.last_correct_timestamp = t,
                      !.difficulty = CorrectDifficulty(word.shown_times + 1,
                                                       word.difficulty)]
    ELSE [word EXCEPT !.last_shown_timestamp = t,
                      !.difficulty = IncorrectDifficulty(word.difficulty)]

(* Mutant: last_correct_timestamp is written on every outcome.             *)
ReviewedStampAlways(word, wasCorrect, t) ==
    [word EXCEPT !.last_shown_timestamp = t,
                 !.shown_times = word.shown_times + 1,
                 !.last_correct_timestamp = t,
                 !.difficulty = IF wasCorrect
                                THEN CorrectDifficulty(word.shown_times + 1,
                                                       word.difficulty)
                                ELSE IncorrectDifficulty(word.difficulty)]

Reviewed(word, wasCorrect, t) ==
    LET shown == word.shown_times + 1
    IN IF wasCorrect
       THEN [word EXCEPT !.last_shown_timestamp = t,
                         !.shown_times = shown,
                         !.last_correct_timestamp = t,
                         !.difficulty = CorrectDifficulty(shown, word.difficulty)]
       ELSE [word EXCEPT !.last_shown_timestamp = t,
                         !.shown_times = shown,
                         !.difficulty = IncorrectDifficulty(word.difficulty)]

ReviewedHist(h, word, wasCorrect, t) ==
    [lastOutcome |-> IF wasCorrect THEN "correct" ELSE "incorrect",
     strict |-> h.strict /\ t > word.last_shown_timestamp,
     reported |-> h.reported + 1,
     imported |-> h.imported]

(* The history of the records of a collection that replaces the stored     *)
(* one: a record stored before with the same fields keeps the history it   *)
(* had, any other record starts one as imported.                           *)
HistOf(words, oldWords, oldHist) ==
    [k \in 1..Len(words) |->
        IF \E j \in 1..Len(oldWords) : oldWords[j] = words[k]
        THEN oldHist[CHOOSE j \in 1..Len(oldWords) : oldWords[j] = words[k]]
        ELSE [NewHist EXCEPT !.imported = TRUE]]

RECURSIVE TotalShown(_)
TotalShown(words) ==
    IF words = <<>> THEN 0
    ELSE Head(words).shown_times + TotalShown(Tail(words))

(* What updateWordReview hands back to its caller: the bare `return;` of   *)
(* the not-found branch (wordIndex = 0 here, -1 in the code) and the end   *)
(* of the function body both give undefined.                               *)
Undefined == "undefined"

updateWordReviewReturn(wordIndex) ==
    IF wordIndex = 0 THEN Undefined ELSE Undefined

Op(name, w, c, k, before, wrote, result) ==
    [op |-> name, word |-> w, wasCorrect |-> c, idx |-> k,
     before |-> before, wrote |-> wrote, result |-> result, times |-> <<>>,
     returned |-> IF name = "update" THEN updateWordReviewReturn(k)
                  ELSE Undefined]

(* ------------------------------ state ---------------------------------- *)
NoCalls == [updates |-> 0, edits |-> 0, repeats |-> 0]
Idle == [kind |-> "none", word |-> "", wasCorrect |-> FALSE,
         record |-> NoWord]

Init ==
    /\ store = <<>>
    /\ now = StartNow
    /\ ticks = 0
    /\ nextId = 1
    /\ hist = <<>>
    /\ lastOp = Op("init", "", FALSE, 0, NoWord, FALSE, NoWord)
    /\ pc = [p \in Procs |-> "idle"]
    /\ req = [p \in Procs |-> Idle]
    /\ snapshot = [p \in Procs |-> <<>>]
    /\ calls = NoCalls
    /\ calc = NoCall
    /\ scan = NoScan
    /\ page = NoPage
    /\ env = Env(LocalStorage, FALSE)

asyncVars == <<pc, req, snapshot, calls>>
auxVars == <<calc, scan, page, env>>

(* Date.now() moves forward between two calls.                             *)
Tick(maxTicks, deltas) ==
    /\ ticks < maxTicks
    /\ \E d \in deltas : now' = now + d
    /\ ticks' = ticks + 1
    /\ lastOp' = Op("tick", "", FALSE, 0, NoWord, FALSE, NoWord)
    /\ UNCHANGED <<store, nextId, hist, asyncVars, auxVars>>

addWord ==
    /\ Len(store) < MaxWords
    /\ nextId <= MaxIds
    /\ \E w \in Words, d \in AddDifficulties :
          /\ store' = Append(store, NewWord(nextId, w, d))
          /\ lastOp' = Op("add", "", FALSE, 0, NoWord, TRUE, NoWord)
    /\ hist' = Append(hist, NewHist)
    /\ nextId' = nextId + 1
    /\ UNCHANGED <<now, ticks, asyncVars, auxVars>>

Keep(words, wordStr) == {k \in 1..Len(words) : words[k].word # wordStr}

RECURSIVE FilterAt(_, _, _)
FilterAt(s, keep, k) ==
    IF k > Len(s) THEN <<>>
    ELSE (IF k \in keep THEN <<s[k]>> ELSE <<>>) \o FilterAt(s, keep, k + 1)

removeWord ==
    \E w \in Words :
        /\ store' = FilterAt(store, Keep(store, w), 1)
        /\ hist' = FilterAt(hist, Keep(store, w), 1)
        /\ lastOp' = Op("remove", "", FALSE, 0, NoWord, TRUE, NoWord)
        /\ UNCHANGED <<now, ticks, nextId, asyncVars, auxVars>>

(* setWords(words): the stored collection is replaced by the array the     *)
(* caller passes: an empty one, the stored records in the opposite order,  *)
(* or records of the caller's own making.                                  *)
setWords ==
    \E words \in {<<>>, ImportedWords} :
        /\ store' = words
        /\ hist' = HistOf(words, store, hist)
        /\ lastOp' = Op("setWords", "", FALSE, 0, NoWord, TRUE, NoWord)
        /\ UNCHANGED <<now, ticks, nextId, asyncVars, auxVars>>

(* Mutant: the stored array sorted in place and written back.              *)
autoGetNextWordSortsStore ==
    /\ \E times \in ClockReads(Len(store), now, MaxTicks - ticks) :
          /\ lastOp' = [Op("select", "", FALSE, 0, NoWord, FALSE,
                           SelectNext(store, times)) EXCEPT !.times = times]
          /\ store' = [k \in 1..Len(store) |->
                          SortByPriority([j \in 1..Len(store) |->
                              [word |-> store[j],
                               priority |-> calculateWordPriority(store[j],
                                                times[j])]])[k].word]
          /\ now' = LastRead(times, now)
          /\ ticks' = ticks + (LastRead(times, now) - now) \div ClockStep
    /\ UNCHANGED <<nextId, hist, asyncVars, auxVars>>

(* getWords(), the scoring of every entry at the value Date.now() gives in *)
(* its call, the sort, and the first element returned.  The clock is left  *)
(* where the last call read it.                                            *)
autoGetNextWord ==
    /\ \E times \in ClockReads(Len(store), now, MaxTicks - ticks) :
          /\ lastOp' = [Op("select", "", FALSE, 0, NoWord, FALSE,
                           SelectNext(store, times)) EXCEPT !.times = times]
          /\ now' = LastRead(times, now)
          /\ ticks' = ticks + (LastRead(times, now) - now) \div ClockStep
    /\ UNCHANGED <<store, nextId, hist, asyncVars, auxVars>>

updateWordReviewOf(w, c, maxShown) ==
    LET wordIndex == findIndex(store, w)
    IN IF wordIndex = 0
       THEN /\ lastOp' = Op("update", w, c, 0, NoWord, FALSE, NoWord)
            /\ UNCHANGED <<store, now, ticks, nextId, hist, asyncVars, auxVars>>
       ELSE /\ TotalShown(store) < maxShown
            /\ store' = [store EXCEPT
                            ![wordIndex] = Reviewed(store[wordIndex], c, now)]
            /\ hist' = [hist EXCEPT
                            ![wordIndex] = ReviewedHist(hist[wordIndex],
                                               store[wordIndex], c, now)]
            /\ lastOp' = Op("update", w, c, wordIndex, store[wordIndex],
                            TRUE, NoWord)
            /\ UNCHANGED <<now, ticks, nextId, asyncVars, auxVars>>

updateWordReview(maxShown) ==
    \E w \in Words \cup {Absent}, c \in BOOLEAN :
        updateWordReviewOf(w, c, maxShown)

(* updateWordReview called with a word string in another letter case.      *)
updateWordReviewOtherCase(maxShown) ==
    \E w \in CaseVariants, c \in BOOLEAN :
        updateWordReviewOf(w, c, maxShown)

Next ==
    \/ Tick(MaxTicks, BankDeltas)
    \/ addWord
    \/ removeWord
    \/ setWords
    \/ autoGetNextWord
    \/ updateWordReview(MaxShown)

Spec == Init /\ [][Next]_vars

(* ------------------ the review history of one record ------------------- *)
(* A word bank holding one record that was never shown.                    *)
InitReview ==
    /\ \E d \in InitDifficulties : store = <<NewWord(1, "cat", d)>>
    /\ now = StartNow
    /\ ticks = 0
    /\ nextId = 2
    /\ hist = <<NewHist>>
    /\ lastOp = Op("init", "", FALSE, 0, NoWord, FALSE, NoWord)
    /\ pc = [p \in Procs |-> "idle"]
    /\ req = [p \in Procs |-> Idle]
    /\ snapshot = [p \in Procs |-> <<>>]
    /\ calls = NoCalls
    /\ calc = NoCall
    /\ scan = NoScan
    /\ page = NoPage
    /\ env = Env(LocalStorage, FALSE)

NextReview ==
    \/ Tick(MaxReviewTicks, Deltas)
    \/ updateWordReview(MaxReviews)
    \/ updateWordReviewOtherCase(MaxReviews)

SpecReview == InitReview /\ [][NextReview]_vars

(* ------------- the asynchronous word bank (localforage) ---------------- *)
(* A word bank of two records that were never shown.                       *)
InitAsync ==
    /\ \E d \in InitDifficulties :
          store = <<NewWord(1, "cat", d), NewWord(2, "dog", d)>>
    /\ now = StartNow
    /\ ticks = 0
    /\ nextId = 3
    /\ hist = <<NewHist, NewHist>>
    /\ lastOp = Op("init", "", FALSE, 0, NoWord, FALSE, NoWord)
    /\ pc = [p \in Procs |-> "idle"]
    /\ req = [p \in Procs |-> Idle]
    /\ snapshot = [p \in Procs |-> <<>>]
    /\ calls = NoCalls
    /\ calc = NoCall
    /\ scan = NoScan
    /\ page = NoPage
    /\ env = Env(Localforage, FALSE)

InFlight(w) ==
    \E q \in Procs :
        pc[q] # "idle" /\ req[q].kind = "update" /\ req[q].word = w

(* The history of the records of a collection written over the stored one: *)
(* a record keeps the history of the stored record with its id, a record   *)
(* with a new id starts one.                                               *)
HistById(words, oldWords, oldHist) ==
    [k \in 1..Len(words) |->
        IF \E j \in 1..Len(oldWords) : oldWords[j].id = words[k].id
        THEN oldHist[CHOOSE j \in 1..Len(oldWords) :
                        oldWords[j].id = words[k].id]
        ELSE NewHist]

(* updateWordReview(wordStr, wasCorrect) is called: it starts getWords().  *)
(* The caller keeps at most one update of a word in flight.                *)
asyncCall(p) ==
    /\ pc[p] = "idle"
    /\ calls.updates < MaxCalls
    /\ \E w \in Words \cup {Absent}, c \in BOOLEAN :
          /\ ~InFlight(w)
          /\ req' = [req EXCEPT ![p] = [Idle EXCEPT !.kind = "update",
                                                   !.word = w,
                                                   !.wasCorrect = c]]
          /\ hist' = [k \in 1..Len(hist) |->
                         IF k = findIndex(store, w)
                         THEN [hist[k] EXCEPT !.reported = @ + 1]
                         ELSE hist[k]]
    /\ pc' = [pc EXCEPT ![p] = "getWords"]
    /\ calls' = [calls EXCEPT !.updates = @ + 1]
    /\ lastOp' = Op("call", "", FALSE, 0, NoWord, FALSE, NoWord)
    /\ UNCHANGED <<store, now, ticks, nextId, snapshot, auxVars>>

(* addWord(word) is called: it starts getWords().                          *)
asyncAddWord(p) ==
    /\ pc[p] = "idle"
    /\ calls.edits < MaxEdits
    /\ \E d \in AddDifficulties :
          req' = [req EXCEPT ![p] = [Idle EXCEPT !.kind = "add",
                                                !.word = Absent,
                                                !.record =
                                                    NewWord(nextId, Absent, d)]]
    /\ nextId' = nextId + 1
    /\ calls' = [calls EXCEPT !.edits = @ + 1]
    /\ pc' = [pc EXCEPT ![p] = "getWords"]
    /\ lastOp' = Op("call", "", FALSE, 0, NoWord, FALSE, NoWord)
    /\ UNCHANGED <<store, now, ticks, hist, snapshot, auxVars>>

(* removeWord(wordStr) is called: it starts getWords().                    *)
asyncRemoveWord(p) ==
    /\ pc[p] = "idle"
    /\ calls.edits < MaxEdits
    /\ \E w \in Words :
          req' = [req EXCEPT ![p] = [Idle EXCEPT !.kind = "remove",
                                                !.word = w]]
    /\ calls' = [calls EXCEPT !.edits = @ + 1]
    /\ pc' = [pc EXCEPT ![p] = "getWords"]
    /\ lastOp' = Op("call", "", FALSE, 0, NoWord, FALSE, NoWord)
    /\ UNCHANGED <<store, now, ticks, nextId, hist, snapshot, auxVars>>

(* setWords(words) is called: localforage.setItem replaces the stored      *)
(* collection by the array the caller passes, without reading it.          *)
asyncSetWords(p) ==
    /\ pc[p] = "idle"
    /\ calls.edits < MaxEdits
    /\ \E words \in {<<>>, Reverse(store), ImportedWords} :
          /\ store' = words
          /\ hist' = HistById(words, store, hist)
    /\ req' = [req EXCEPT ![p] = [Idle EXCEPT !.kind = "set"]]
    /\ calls' = [calls EXCEPT !.edits = @ + 1]
    /\ pc' = [pc EXCEPT ![p] = "setWords"]
    /\ lastOp' = Op("setWords", "", FALSE, 0, NoWord, TRUE, NoWord)
    /\ UNCHANGED <<now, ticks, nextId, snapshot, auxVars>>

(* localforage.getItem reads the stored collection; JSON.parse gives the   *)
(* caller its own copy.                                                    *)
asyncGetWords(p) ==
    /\ pc[p] = "getWords"
    /\ snapshot' = [snapshot EXCEPT ![p] = store]
    /\ pc' = [pc EXCEPT ![p] = "resume"]
    /\ lastOp' = Op("read", "", FALSE, 0, NoWord, FALSE, NoWord)
    /\ UNCHANGED <<store, now, ticks, nextId, hist, req, calls, auxVars>>

(* The continuation of updateWordReview after await getWords(): update the *)
(* copy, setWords it.                                                      *)
resumeUpdate(p) ==
    LET words == snapshot[p]
        wordIndex == findIndex(words, req[p].word)
    IN IF wordIndex = 0
       THEN /\ pc' = [pc EXCEPT ![p] = "idle"]
            /\ req' = [req EXCEPT ![p] = Idle]
            /\ lastOp' = Op("update", req[p].word, req[p].wasCorrect, 0,
                            NoWord, FALSE, NoWord)
            /\ UNCHANGED <<store, hist>>
       ELSE /\ store' = [words EXCEPT ![wordIndex] =
                            Reviewed(words[wordIndex], req[p].wasCorrect, now)]
            /\ hist' = HistById(words, store, hist)
            /\ pc' = [pc EXCEPT ![p] = "setWords"]
            /\ lastOp' = Op("update", req[p].word, req[p].wasCorrect,
                            wordIndex, words[wordIndex], TRUE, NoWord)
            /\ UNCHANGED req

(* The continuation of addWord: push the record on the copy and store it.  *)
resumeAdd(p) ==
    /\ store' = Append(snapshot[p], req[p].record)
    /\ hist' = HistById(store', store, hist)
    /\ pc' = [pc EXCEPT ![p] = "setWords"]
    /\ lastOp' = Op("add", "", FALSE, 0, NoWord, TRUE, NoWord)
    /\ UNCHANGED req

(* The continuation of removeWord: filter the copy and store it.           *)
resumeRemove(p) ==
    /\ store' = FilterAt(snapshot[p], Keep(snapshot[p], req[p].word), 1)
    /\ hist' = HistById(store', store, hist)
    /\ pc' = [pc EXCEPT ![p] = "setWords"]
    /\ lastOp' = Op("remove", "", FALSE, 0, NoWord, TRUE, NoWord)
    /\ UNCHANGED req

asyncResume(p) ==
    /\ pc[p] = "resume"
    /\ CASE req[p].kind = "update" -> resumeUpdate(p)
         [] req[p].kind = "add" -> resumeAdd(p)
         [] OTHER -> resumeRemove(p)
    /\ snapshot' = [snapshot EXCEPT ![p] = <<>>]
    /\ UNCHANGED <<now, ticks, nextId, calls, auxVars>>

(* The pending await of localforage.setItem settles.                       *)
asyncSettle(p) ==
    /\ pc[p] = "setWords"
    /\ pc' = [pc EXCEPT ![p] = "idle"]
    /\ req' = [req EXCEPT ![p] = Idle]
    /\ lastOp' = Op("settle", "", FALSE, 0, NoWord, FALSE, NoWord)
    /\ UNCHANGED <<store, now, ticks, nextId, hist, snapshot, calls, auxVars>>

NextAsync ==
    \/ Tick(MaxTicks, Deltas)
    \/ \E p \in Procs : asyncCall(p)
    \/ \E p \in Procs : asyncAddWord(p)
    \/ \E p \in Procs : asyncRemoveWord(p)
    \/ \E p \in Procs : asyncSetWords(p)
    \/ \E p \in Procs : asyncGetWords(p)
    \/ \E p \in Procs : asyncResume(p)
    \/ \E p \in Procs : asyncSettle(p)

SpecAsync == InitAsync /\ [][NextAsync]_vars

(* ------- the interval model and priority scoring as functions ---------- *)
callInterval ==
    /\ \E d \in CalcDifficulties, n \in 0..MaxShownArg, c \in BOOLEAN :
          calc' = [NoCall EXCEPT !.fn = "interval",
                                 !.difficulty = d,
                                 !.shownTimes = n,
                                 !.wasCorrect = c,
                                 !.interval = calculateNextInterval(d, n, c)]
    /\ lastOp' = Op("interval", "", FALSE, 0, NoWord, FALSE, NoWord)
    /\ UNCHANGED <<store, now, ticks, nextId, hist, asyncVars, scan, page, env>>

callPriority ==
    /\ \E word \in CalcWords, t \in CalcNows :
          calc' = [NoCall EXCEPT !.fn = "priority",
                                 !.word = word,
                                 !.t = t,
                                 !.priority = calculateWordPriority(word, t)]
    /\ lastOp' = Op("priority", "", FALSE, 0, NoWord, FALSE, NoWord)
    /\ UNCHANGED <<store, now, ticks, nextId, hist, asyncVars, scan, page, env>>

NextCalc ==
    \/ callInterval
    \/ callPriority

SpecCalc == Init /\ [][NextCalc]_vars

(* ------------- the scoring loop of one selection, by entry ------------- *)
(* autoGetNextWord above is the whole call in one step.  Here the callback *)
(* of words.map is one step for each entry: calculateWordPriority reads    *)
(* Date.now() anew in every call, and the clock may move between two       *)
(* calls.                                                                  *)
(* The word bank a selection finds: two new records, or two records after  *)
(* incorrect answers, "dog" reviewed once when the program started and     *)
(* "cat" then and once more, k steps of the clock later.                   *)
ReviewedPair(d1, d2, k) ==
    <<Reviewed(Reviewed(NewWord(1, "cat", d1), FALSE, StartNow),
               FALSE, StartNow + k * ClockStep),
      Reviewed(NewWord(2, "dog", d2), FALSE, StartNow)>>

ReviewedPairHist(d1, d2, k) ==
    <<ReviewedHist(ReviewedHist(NewHist, NewWord(1, "cat", d1), FALSE, StartNow),
                   Reviewed(NewWord(1, "cat", d1), FALSE, StartNow),
                   FALSE, StartNow + k * ClockStep),
      ReviewedHist(NewHist, NewWord(2, "dog", d2), FALSE, StartNow)>>

InitSelect ==
    /\ \E d1 \in InitDifficulties, d2 \in InitDifficulties :
          \/ /\ store = <<NewWord(1, "cat", d1), NewWord(2, "dog", d2)>>
             /\ hist = <<NewHist, NewHist>>
             /\ now = StartNow
          \/ \E k \in 1..2 :
                /\ store = ReviewedPair(d1, d2, k)
                /\ hist = ReviewedPairHist(d1, d2, k)
                /\ now = StartNow + k * ClockStep
    /\ ticks = 0
    /\ nextId = 3
    /\ lastOp = Op("init", "", FALSE, 0, NoWord, FALSE, NoWord)
    /\ pc = [p \in Procs |-> "idle"]
    /\ req = [p \in Procs |-> Idle]
    /\ snapshot = [p \in Procs |-> <<>>]
    /\ calls = NoCalls
    /\ calc = NoCall
    /\ scan = NoScan
    /\ page = NoPage
    /\ env = Env(LocalStorage, FALSE)

(* getWords(), and the early return on an empty collection.                *)
selectCall ==
    /\ ~scan.active
    /\ IF Len(store) = 0
       THEN /\ scan' = NoScan
            /\ lastOp' = Op("select", "", FALSE, 0, NoWord, FALSE, NoWord)
       ELSE /\ scan' = [active |-> TRUE, words |-> store, scored |-> <<>>]
            /\ lastOp' = Op("read", "", FALSE, 0, NoWord, FALSE, NoWord)
    /\ UNCHANGED <<store, now, ticks, nextId, hist, asyncVars, calc, page, env>>

(* One call of the map callback.                                           *)
selectScore ==
    /\ scan.active
    /\ Len(scan.scored) < Len(scan.words)
    /\ LET word == scan.words[Len(scan.scored) + 1]
       IN scan' = [scan EXCEPT !.scored =
                      Append(@, [word |-> word,
                                 priority |-> calculateWordPriority(word, now),
                                 at |-> now])]
    /\ lastOp' = Op("score", "", FALSE, 0, NoWord, FALSE, NoWord)
    /\ UNCHANGED <<store, now, ticks, nextId, hist, asyncVars, calc, page, env>>

(* The clock moves on by the smallest step of the model.                   *)
clockMoves ==
    /\ ticks < MaxScanTicks
    /\ now' = now + ClockStep
    /\ ticks' = ticks + 1
    /\ lastOp' = Op("tick", "", FALSE, 0, NoWord, FALSE, NoWord)
    /\ UNCHANGED <<store, nextId, hist, asyncVars, auxVars>>

(* sort and return wordsWithPriority[0].word.                              *)
selectReturn ==
    /\ scan.active
    /\ Len(scan.scored) = Len(scan.words)
    /\ scan' = [scan EXCEPT !.active = FALSE]
    /\ lastOp' = [Op("select", "", FALSE, 0, NoWord, FALSE,
                     SortByPriority(scan.scored)[1].word)
                     EXCEPT !.times = [k \in 1..Len(scan.scored) |->
                                          scan.scored[k].at]]
    /\ UNCHANGED <<store, now, ticks, nextId, hist, asyncVars, calc, page, env>>

NextSelect ==
    \/ selectCall
    \/ selectScore
    \/ clockMoves
    \/ selectReturn

SpecSelect == InitSelect /\ [][NextSelect]_vars

(* --------------------------- the learn page ---------------------------- *)
(* pages/learn.tsx over the word bank.  The page loads, selects a word,    *)
(* presents one quiz step, reports the outcome and reloads.  Every await   *)
(* of a request (the storage of localforage, the AI) ends a step: until    *)
(* the answer arrives the clock may move, a button that is rendered may be *)
(* pressed and another answer may arrive.  Over localStorage the word bank *)
(* returns in the call, and an await of it is the rest of the same step.   *)
FourYears == 1461 * BaseInterval
LearnDeltas == {BaseInterval, FourYears}

(* What AIConnect.generateWordChoices resolves to: the four choices of a   *)
(* well-formed answer, or [] after a malformed answer on every attempt or  *)
(* after any error; it never rejects.  The value is the array's length.    *)
generateWordChoices == {0, 4}

(* generateWordChoicesWithDefinition is not part of the AIConnect class in *)
(* the sources at hand: it is taken to resolve to four choices or to       *)
(* reject, and a rejection is caught by createKnownWordStep.               *)
generateWordChoicesWithDefinition == {4}

(* A step on screen: currentStep set, isLoading false.                     *)
Step(type, word, options) ==
    [NoPage EXCEPT !.type = type, !.word = word, !.options = options,
                   !.isLoading = FALSE]

(* The spinner while the page awaits the answer to a request.              *)
Awaiting(word, request) == [NoPage EXCEPT !.word = word, !.wait = request]

(* createKnownWordStep up to its await: free recall when Math.random() is  *)
(* not below 0.5 or when no AI is configured, otherwise a request to the   *)
(* generator, awaited.                                                     *)
createKnownWordStep(word) ==
    {Step("input_meaning", word, 0)}
    \cup (IF env.ai THEN {Awaiting(word, "choices")} ELSE {})

(* Mutant: the judge step also for a word shown once.                      *)
firstStepsJudgeAgain(word) ==
    IF word = NoWord THEN {Step("done", NoWord, 0)}
    ELSE IF word.shown_times <= 1 THEN {Step("judge", word, 0)}
    ELSE createKnownWordStep(word)

(* What initializeLearningSession does with the word selection gave.       *)
firstSteps(word) ==
    IF word = NoWord THEN {Step("done", NoWord, 0)}
    ELSE IF word.shown_times = 0 THEN {Step("judge", word, 0)}
    ELSE createKnownWordStep(word)

(* The word bank the page finds: empty, or one or two records that were   *)
(* never shown; "dog" is stored without a definition or with one of blanks. *)
InitLearn ==
    /\ \E d1 \in AddDifficulties, d2 \in AddDifficulties,
          b \in {"", Blank} :
          store \in {<<>>, <<NewWord(1, "cat", d1)>>,
                     <<NewWord(1, "cat", d1),
                       [NewWord(2, "dog", d2) EXCEPT !.definition = b]>>,
                     <<[NewWord(1, "dog", d1) EXCEPT !.definition = b],
                       NewWord(2, "cat", d2)>>}
    /\ hist = [k \in 1..Len(store) |-> NewHist]
    /\ nextId = Len(store) + 1
    /\ now = StartNow
    /\ ticks = 0
    /\ lastOp = Op("init", "", FALSE, 0, NoWord, FALSE, NoWord)
    /\ pc = [p \in Procs |-> "idle"]
    /\ req = [p \in Procs |-> Idle]
    /\ snapshot = [p \in Procs |-> <<>>]
    /\ calls = NoCalls
    /\ calc = NoCall
    /\ scan = NoScan
    /\ page = NoPage
    /\ env \in {Env(bank, ai) : bank \in {LocalStorage, Localforage},
                                ai \in BOOLEAN}

learnVars == <<nextId, calc, scan, env>>

(* The body of autoGetNextWord after the collection is read, with the      *)
(* clock read per entry, and initializeLearningSession from the word on.   *)
selectFirstStep ==
    \E times \in ClockReads(Len(store), now, MaxLearnTicks - ticks) :
        LET word == SelectNext(store, times)
        IN /\ page' \in firstSteps(word)
           /\ lastOp' = [Op("initialize", "", FALSE, 0, NoWord, FALSE, word)
                            EXCEPT !.times = times]
           /\ now' = LastRead(times, now)
           /\ ticks' = ticks + (LastRead(times, now) - now) \div ClockStep

(* The document is loaded and the effect runs initializeLearningSession.   *)
(* What the document before it still awaited is gone with it.  Over        *)
(* localStorage the word is selected in the call; over localforage the     *)
(* read of autoGetNextWord is awaited.                                     *)
initializeLearningSession ==
    /\ page = NoPage
    /\ pc' = [p \in Procs |-> "idle"]
    /\ req' = [p \in Procs |-> Idle]
    /\ snapshot' = [p \in Procs |-> <<>>]
    /\ IF env.bank = LocalStorage
       THEN selectFirstStep
       ELSE /\ page' = Awaiting(NoWord, "select")
            /\ lastOp' = Op("load", "", FALSE, 0, NoWord, FALSE, NoWord)
            /\ UNCHANGED <<now, ticks>>
    /\ UNCHANGED <<store, hist, calls, learnVars>>

(* localforage answers the read of autoGetNextWord.                        *)
autoGetNextWordResolved ==
    /\ page.wait = "select"
    /\ selectFirstStep
    /\ UNCHANGED <<store, hist, pc, req, snapshot, calls, learnVars>>

(* The generator answers createKnownWordStep: multiple choice with the     *)
(* array it gave, or free recall when it rejects.  The generator was       *)
(* chosen by word.definition?.trim(): a definition of blanks counts as     *)
(* none.                                                                   *)
createKnownWordStepResolved ==
    /\ page.wait = "choices"
    /\ \/ \E n \in IF trim(page.word.definition) # ""
                   THEN generateWordChoicesWithDefinition
                   ELSE generateWordChoices :
             page' = Step("multiple", page.word, n)
       \/ /\ trim(page.word.definition) # ""
          /\ page' = Step("input_meaning", page.word, 0)
    /\ lastOp' = Op("choices", "", FALSE, 0, NoWord, FALSE, NoWord)
    /\ UNCHANGED <<store, now, ticks, hist, pc, req, snapshot, calls,
                   learnVars>>

(* A step with its buttons is on screen.                                   *)
Shown(type) == ~page.isLoading /\ page.type = type

(* The lowest call slot that is free.                                      *)
FreeSlot == CHOOSE p \in Procs :
                pc[p] = "idle" /\ \A q \in Procs : pc[q] = "idle" => p <= q

(* A handler calls updateWordReview(currentStep.word.word, isCorrect) and  *)
(* awaits it; moveToNextWord() follows the await.  Over localStorage the   *)
(* call writes the record and the page reloads in the same step.  Over     *)
(* localforage the call starts getWords(), and the page stays as it is.    *)
reportOutcome(isCorrect) ==
    LET w == page.word.word
        wordIndex == findIndex(store, w)
    IN /\ calls.updates < MaxLearnShown
       /\ calls' = [calls EXCEPT
                       !.updates = @ + 1,
                       !.repeats = @ + (IF page.reports > 0 THEN 1 ELSE 0)]
       /\ IF env.bank = LocalStorage
          THEN /\ IF wordIndex = 0
                  THEN /\ lastOp' = Op("update", w, isCorrect, 0, NoWord,
                                       FALSE, NoWord)
                       /\ UNCHANGED <<store, hist>>
                  ELSE /\ store' = [store EXCEPT ![wordIndex] =
                                       Reviewed(store[wordIndex], isCorrect,
                                                now)]
                       /\ hist' = [hist EXCEPT ![wordIndex] =
                                      ReviewedHist(hist[wordIndex],
                                                   store[wordIndex],
                                                   isCorrect, now)]
                       /\ lastOp' = Op("update", w, isCorrect, wordIndex,
                                       store[wordIndex], TRUE, NoWord)
               /\ page' = NoPage
               /\ UNCHANGED <<pc, req, snapshot>>
          ELSE /\ \E p \in Procs : pc[p] = "idle"
               /\ req' = [req EXCEPT ![FreeSlot] =
                             [Idle EXCEPT !.kind = "update", !.word = w,
                                          !.wasCorrect = isCorrect]]
               /\ pc' = [pc EXCEPT ![FreeSlot] = "getWords"]
               /\ hist' = [k \in 1..Len(hist) |->
                              IF k = wordIndex
                              THEN [hist[k] EXCEPT !.reported = @ + 1]
                              ELSE hist[k]]
               /\ page' = [page EXCEPT !.reports = @ + 1, !.wait = "none"]
               /\ lastOp' = Op("call", "", FALSE, 0, NoWord, FALSE, NoWord)
               /\ UNCHANGED <<store, snapshot>>
       /\ UNCHANGED <<now, ticks, learnVars>>

(* The continuation of updateWordReview after await getWords(): the record *)
(* is updated in the copy and setWords is awaited; a word that is not      *)
(* found ends the call, and the page reloads.                              *)
updateWordReviewWrites(p) ==
    /\ pc[p] = "resume"
    /\ resumeUpdate(p)
    /\ snapshot' = [snapshot EXCEPT ![p] = <<>>]
    /\ page' = IF findIndex(snapshot[p], req[p].word) = 0 THEN NoPage
               ELSE page
    /\ UNCHANGED <<now, ticks, calls, learnVars>>

(* localforage acknowledges the write: updateWordReview resolves and       *)
(* moveToNextWord() calls window.location.reload().                        *)
updateWordReviewResolved(p) ==
    /\ pc[p] = "setWords"
    /\ pc' = [pc EXCEPT ![p] = "idle"]
    /\ req' = [req EXCEPT ![p] = Idle]
    /\ page' = NoPage
    /\ lastOp' = Op("reload", "", FALSE, 0, NoWord, FALSE, NoWord)
    /\ UNCHANGED <<store, now, ticks, hist, snapshot, calls, learnVars>>

(* handleError: alert, then reload; nothing is reported.                   *)
reloadAfterError ==
    /\ page' = NoPage
    /\ lastOp' = Op("error", "", FALSE, 0, NoWord, FALSE, NoWord)
    /\ UNCHANGED <<store, now, ticks, hist, pc, req, snapshot, calls,
                   learnVars>>

(* Yes reports a correct outcome; isLoading is not set.  No shows the      *)
(* sentence step with the stored definition; without one it sets isLoading *)
(* and awaits generateDefinition, and without an AI that is an error.      *)
handleJudgeResponse ==
    /\ Shown("judge")
    /\ \/ reportOutcome(TRUE)
       \/ /\ trim(page.word.definition) # ""
          /\ page' = [page EXCEPT !.type = "input_sentence"]
          /\ lastOp' = Op("judge", "", FALSE, 0, NoWord, FALSE, NoWord)
          /\ UNCHANGED <<store, now, ticks, hist, pc, req, snapshot, calls,
                         learnVars>>
       \/ /\ trim(page.word.definition) = ""
          /\ env.ai
          /\ page' = [page EXCEPT !.isLoading = TRUE, !.wait = "definition"]
          /\ lastOp' = Op("judge", "", FALSE, 0, NoWord, FALSE, NoWord)
          /\ UNCHANGED <<store, now, ticks, hist, pc, req, snapshot, calls,
                         learnVars>>
       \/ /\ trim(page.word.definition) = ""
          /\ ~env.ai
          /\ reloadAfterError

(* The AI answers generateDefinition, with "" when it failed: the sentence *)
(* step is set and isLoading cleared.                                      *)
generateDefinitionResolved ==
    /\ page.wait = "definition"
    /\ page' = [page EXCEPT !.type = "input_sentence", !.isLoading = FALSE,
                            !.wait = "none"]
    /\ lastOp' = Op("definition", "", FALSE, 0, NoWord, FALSE, NoWord)
    /\ UNCHANGED <<store, now, ticks, hist, pc, req, snapshot, calls,
                   learnVars>>

(* Without an AI the submission is an error; with one, isLoading is set    *)
(* and checkExample awaited.                                               *)
handleSentenceInput ==
    /\ Shown("input_sentence")
    /\ \/ /\ ~env.ai
          /\ reloadAfterError
       \/ /\ env.ai
          /\ page' = [page EXCEPT !.isLoading = TRUE, !.wait = "check"]
          /\ lastOp' = Op("sentence", "", FALSE, 0, NoWord, FALSE, NoWord)
          /\ UNCHANGED <<store, now, ticks, hist, pc, req, snapshot, calls,
                         learnVars>>

(* The AI answers checkExample, with false when it failed: the outcome is  *)
(* reported under the spinner.                                             *)
checkExampleResolved ==
    /\ page.wait = "check"
    /\ \E isCorrect \in BOOLEAN : reportOutcome(isCorrect)

(* The outcome is the equality of the trimmed, lower-cased answer and      *)
(* definition; isLoading is not set.                                       *)
handleMeaningInput ==
    /\ Shown("input_meaning")
    /\ \E isCorrect \in BOOLEAN : reportOutcome(isCorrect)

(* One of the buttons rendered for the options is pressed; the outcome is  *)
(* the isCorrect of that choice; isLoading is not set.                     *)
handleMultipleChoice ==
    /\ Shown("multiple")
    /\ page.options > 0
    /\ \E isCorrect \in BOOLEAN : reportOutcome(isCorrect)

timePasses ==
    /\ ticks < MaxLearnTicks
    /\ \E d \in LearnDeltas : now' = now + d
    /\ ticks' = ticks + 1
    /\ lastOp' = Op("tick", "", FALSE, 0, NoWord, FALSE, NoWord)
    /\ UNCHANGED <<store, hist, page, pc, req, snapshot, calls, learnVars>>

NextLearn ==
    \/ initializeLearningSession
    \/ autoGetNextWordResolved
    \/ createKnownWordStepResolved
    \/ handleJudgeResponse
    \/ generateDefinitionResolved
    \/ handleSentenceInput
    \/ checkExampleResolved
    \/ handleMeaningInput
    \/ handleMultipleChoice
    \/ \E p \in Procs : asyncGetWords(p)
    \/ \E p \in Procs : updateWordReviewWrites(p)
    \/ \E p \in Procs : updateWordReviewResolved(p)
    \/ timePasses

SpecLearn == InitLearn /\ [][NextLearn]_vars

(* ============================ properties ============================== *)
Updated == lastOp.op = "update" /\ lastOp.idx > 0
Before == lastOp.before
After == store[lastOp.idx]
Selected == lastOp.op = "select"
Scored(k) == calculateWordPriority(store[k], lastOp.times[k])
PriorityAt(k, t) == calculateWordPriority(store[k], t)
Reads == {lastOp.times[k] : k \in 1..Len(lastOp.times)}
AddedOnly == \A k \in 1..Len(store) : ~hist[k].imported
AllIdle == \A p \in Procs : pc[p] = "idle"

(* C1: after every review-outcome update of a newly created record, the    *)
(* record's difficulty lies in [1.0, 5.0].                                 *)
C1_DifficultyClamp ==
    \A k \in 1..Len(store) :
        (~hist[k].imported /\ store[k].shown_times > 0) =>
            store[k].difficulty >= 10 /\ store[k].difficulty <= 50

(* C2: every review-outcome update of an existing record raises its        *)
(* shown_times by exactly 1; over any operation on the records (adding,    *)
(* removing, selecting, updating; not the replacement of the whole         *)
(* collection by setWords) the shown_times of a record never decreases,    *)
(* and it is never negative.                                               *)
C2_MonotoneShownTimes ==
    /\ [](\A k \in 1..Len(store) : store[k].shown_times >= 0)
    /\ [](Updated => After.shown_times = Before.shown_times + 1)
    /\ [][lastOp'.op # "setWords" =>
             \A i \in 1..Len(store), j \in 1..Len(store') :
                 store[i].id = store'[j].id =>
                     store'[j].shown_times >= store[i].shown_times]_vars

C2_Witness ==
    /\ Updated /\ ~lastOp.wasCorrect
    /\ Len(store) = 2
    /\ Before.shown_times >= 1
    /\ After.shown_times = Before.shown_times + 1

(* C3 as stated: on a correct outcome difficulty is lowered by 0.1 exactly *)
(* when shown_times before the update is greater than 3 and difficulty is  *)
(* greater than 1.0, and is unchanged otherwise.                           *)
C3_LoweredWhenShownBeforeAbove3 ==
    (Updated /\ lastOp.wasCorrect) =>
        IF Before.shown_times > 3 /\ Before.difficulty > 10
        THEN After.difficulty = Before.difficulty - 1 /\ After.difficulty >= 10
        ELSE After.difficulty = Before.difficulty

(* C3 amended: on a correct outcome difficulty is lowered by 0.1 exactly   *)
(* when shown_times after the increment is greater than 3 (3 or more       *)
(* before the update) and difficulty is greater than 1.0, and is unchanged *)
(* otherwise.                                                              *)
C3_LoweredWhenShownAfterAbove3 ==
    (Updated /\ lastOp.wasCorrect) =>
        IF Before.shown_times + 1 > 3 /\ Before.difficulty > 10
        THEN After.difficulty = Before.difficulty - 1 /\ After.difficulty >= 10
        ELSE After.difficulty = Before.difficulty

C3_Witness ==
    /\ Updated /\ lastOp.wasCorrect
    /\ Before.shown_times = 3
    /\ Before.difficulty > 10
    /\ After.difficulty = Before.difficulty - 1

(* C4: when the collection holds a never-shown record, all difficulties    *)
(* are in [1.0, 5.0] and no shown record was last shown more than five     *)
(* years ago, selection returns a never-shown record.                      *)
C4_NeverShownDominance ==
    ( /\ Selected
      /\ \E k \in 1..Len(store) : store[k].shown_times = 0
      /\ \A k \in 1..Len(store) :
            /\ store[k].difficulty >= 10 /\ store[k].difficulty <= 50
            /\ store[k].shown_times > 0 =>
                   now - store[k].last_shown_timestamp <= FiveYears )
    => lastOp.result.shown_times = 0

C4_Witness ==
    /\ Selected
    /\ Len(store) = 2
    /\ store[1].shown_times > 0
    /\ ~wasLastCorrect(store[1])
    /\ now - store[1].last_shown_timestamp = FiveYears
    /\ store[2].shown_times = 0
    /\ \A k \in 1..2 : store[k].difficulty >= 10 /\ store[k].difficulty <= 50
    /\ lastOp.result = store[2]

(* C5: on a non-empty collection selection returns a record of the         *)
(* collection whose priority is at least that of every record: at one of   *)
(* the times the selection read, no record has a greater priority than the *)
(* record returned.                                                        *)
C5_SelectsMaximum ==
    (Selected /\ Len(store) > 0) =>
        \E t \in Reads : \E k \in 1..Len(store) :
            /\ lastOp.result = store[k]
            /\ \A j \in 1..Len(store) :
                   PriorityGeq(PriorityAt(k, t), PriorityAt(j, t))

(* C6: with at most one update of a word in flight at a time and no call   *)
(* of addWord, removeWord or setWords, once all asynchronous updates have  *)
(* completed every record's shown_times equals the number of updates       *)
(* reported for it.                                                        *)
C6_NoLostUpdates ==
    (AllIdle /\ calls.edits = 0) =>
        \A k \in 1..Len(store) : store[k].shown_times = hist[k].reported

(* C7 as stated: for updates at non-decreasing times the flag              *)
(* last_correct_timestamp >= last_shown_timestamp is true exactly when the *)
(* most recent update of the record was correct or there was none.         *)
C7_FlagIsLastOutcome ==
    \A k \in 1..Len(store) :
        wasLastCorrect(store[k]) <=> hist[k].lastOutcome # "incorrect"

(* C7 amended: the same for updates of the record at strictly increasing   *)
(* times.                                                                  *)
C7_FlagIsLastOutcomeStrictTimes ==
    \A k \in 1..Len(store) :
        hist[k].strict =>
            (wasLastCorrect(store[k]) <=> hist[k].lastOutcome # "incorrect")

C7_Witness ==
    \E k \in 1..Len(store) :
        /\ hist[k].strict
        /\ hist[k].lastOutcome = "incorrect"
        /\ store[k].last_correct_timestamp > 0
        /\ ~wasLastCorrect(store[k])

(* C8: every update sets last_shown_timestamp to the current time; a       *)
(* correct one also sets last_correct_timestamp to it, an incorrect one    *)
(* leaves last_correct_timestamp as it was.                                *)
C8_Timestamps ==
    Updated =>
        /\ After.last_shown_timestamp = now
        /\ lastOp.wasCorrect => After.last_correct_timestamp = now
        /\ ~lastOp.wasCorrect =>
               After.last_correct_timestamp = Before.last_correct_timestamp

C8_Witness ==
    /\ Updated /\ ~lastOp.wasCorrect
    /\ Before.last_correct_timestamp > 0
    /\ Before.last_correct_timestamp < now
    /\ After.last_correct_timestamp = Before.last_correct_timestamp
    /\ After.last_shown_timestamp = now

(* C9: an incorrect outcome sets difficulty to min(5.0, difficulty + 0.2). *)
C9_IncorrectRaisesCapped ==
    (Updated /\ ~lastOp.wasCorrect) =>
        After.difficulty = (IF Before.difficulty + 2 > 50
                            THEN 50 ELSE Before.difficulty + 2)

C9_Witness ==
    /\ Updated /\ ~lastOp.wasCorrect
    /\ Before.difficulty = 49
    /\ After.difficulty = 50

(* C10: an update requested for a word that is not in the collection       *)
(* changes no record of the stored collection and writes nothing.          *)
C10_AbsentNoMutation ==
    [][(/\ lastOp'.op = "update"
        /\ \A k \in 1..Len(store) : store[k].word # lastOp'.word)
       => (store' = store /\ ~lastOp'.wrote)]_vars

C10_Witness ==
    /\ lastOp.op = "update"
    /\ lastOp.word = Absent
    /\ ~lastOp.wrote
    /\ Len(store) = 2
    /\ \E k \in 1..Len(store) : store[k].shown_times > 0

(* C11: an update requested for a word that is absent from the collection  *)
(* hands its caller a result that differs from the result of every         *)
(* successful update.                                                      *)
C11_NotFoundReported ==
    ( /\ lastOp.op = "update"
      /\ \A k \in 1..Len(store) : store[k].word # lastOp.word )
    => \A k \in 1..MaxWords : lastOp.returned # updateWordReviewReturn(k)

(* C12: selection returns the "no entry" result (null) exactly when the    *)
(* collection is empty; on a non-empty collection it returns a record.     *)
C12_NullIffEmpty ==
    Selected => (lastOp.result = NoWord <=> Len(store) = 0)

C12_Witness ==
    /\ Selected
    /\ Len(store) = 0
    /\ nextId > 1
    /\ lastOp.result = NoWord

(* C13: for a correct answer and a difficulty in [1.0, 5.0] the interval   *)
(* is one day times the step 1, 3, 7, 14, 30, 90 or 180 at index           *)
(* min(shownTimes, 6) times max(0.5, 2 - 0.3 * difficulty); every          *)
(* shownTimes of 6 or more uses the 180-day step, and difficulty 3.0 with  *)
(* shownTimes 5 gives 99 days (8,553,600,000 ms).                          *)
C13_CorrectInterval ==
    ( /\ calc.fn = "interval"
      /\ calc.wasCorrect
      /\ calc.difficulty >= 10 /\ calc.difficulty <= 50 )
    => LET n == calc.shownTimes
           days == CASE n = 0 -> 1
                     [] n = 1 -> 3
                     [] n = 2 -> 7
                     [] n = 3 -> 14
                     [] n = 4 -> 30
                     [] n = 5 -> 90
                     [] OTHER -> 180
           hundredths == IF 200 - 3 * calc.difficulty > 50
                         THEN 200 - 3 * calc.difficulty
                         ELSE 50
       IN /\ 100 * calc.interval = BaseInterval * days * hundredths
          /\ (calc.difficulty = 30 /\ n = 5) => calc.interval = 99 * BaseInterval

C13_Witness ==
    /\ calc.fn = "interval"
    /\ calc.wasCorrect
    /\ calc.difficulty = 30
    /\ calc.shownTimes > 6
    /\ calc.interval = 198 * BaseInterval

(* C14: for an incorrect answer and a difficulty in [1.0, 5.0] the         *)
(* interval is one day times (0.1 * difficulty + 0.1) whatever shownTimes  *)
(* is; it lies between 0.2 and 0.6 days, is greater for a greater          *)
(* difficulty, and is 0.3 days (25,920,000 ms) for difficulty 2.0.         *)
C14_IncorrectInterval ==
    ( /\ calc.fn = "interval"
      /\ ~calc.wasCorrect
      /\ calc.difficulty >= 10 /\ calc.difficulty <= 50 )
    => /\ 100 * calc.interval = BaseInterval * (calc.difficulty + 10)
       /\ 10 * calc.interval >= 2 * BaseInterval
       /\ 10 * calc.interval <= 6 * BaseInterval
       /\ \A n \in 0..MaxShownArg :
              calculateNextInterval(calc.difficulty, n, FALSE) = calc.interval
       /\ \A d \in 10..50 :
              d > calc.difficulty =>
                  calculateNextInterval(d, calc.shownTimes, FALSE) > calc.interval
       /\ calc.difficulty = 20 => 10 * calc.interval = 3 * BaseInterval

C14_Witness ==
    /\ calc.fn = "interval"
    /\ ~calc.wasCorrect
    /\ calc.difficulty = 20
    /\ calc.shownTimes = MaxShownArg
    /\ 10 * calc.interval = 3 * BaseInterval

(* C15: for a difficulty in [1.0, 5.0], any shownTimes and either outcome  *)
(* the interval is positive and at least 0.2 days, and so is the divisor   *)
(* of the overdue ratio in priority scoring.                               *)
C15_IntervalPositive ==
    /\ ( /\ calc.fn = "interval"
         /\ calc.difficulty >= 10 /\ calc.difficulty <= 50 )
       => (calc.interval > 0 /\ 10 * calc.interval >= 2 * BaseInterval)
    /\ ( /\ calc.fn = "priority"
         /\ calc.word.difficulty >= 10 /\ calc.word.difficulty <= 50 )
       => (calc.priority.i > 0 /\ 10 * calc.priority.i >= 2 * BaseInterval)

C15_Witness ==
    /\ calc.fn = "priority"
    /\ calc.word.difficulty = 10
    /\ ~wasLastCorrect(calc.word)
    /\ 10 * calc.priority.i = 2 * BaseInterval

(* C16: the priority of a record at time t is the sum of                   *)
(* (t - last_shown_timestamp) / expectedInterval, of 100 when shown_times  *)
(* is 0 and otherwise 10 when shown_times is below 3, of half the          *)
(* difficulty, of 5 when the last answer was not correct and the last      *)
(* correct answer is older than the last showing, and of 2 when the last   *)
(* showing is more than 180 days old; there is no other term.              *)
C16_PrioritySum ==
    calc.fn = "priority" =>
        LET word == calc.word
            sinceShown == calc.t - word.last_shown_timestamp
            sinceCorrect == calc.t - word.last_correct_timestamp
            lastCorrect == word.last_correct_timestamp
                               >= word.last_shown_timestamp
            expected == calculateNextInterval(word.difficulty,
                                              word.shown_times, lastCorrect)
            new == IF word.shown_times = 0 THEN 100
                   ELSE IF word.shown_times < 3 THEN 10 ELSE 0
            missed == IF ~lastCorrect /\ sinceCorrect > sinceShown
                      THEN 5 ELSE 0
            long == IF sinceShown > 180 * BaseInterval THEN 2 ELSE 0
            p == calc.priority
        IN /\ p.i = expected
           /\ p.r >= 0 /\ p.r < p.i
           /\ p.q * p.i + p.r =
                  20 * sinceShown
                  + p.i * (20 * (new + missed + long) + word.difficulty)

C16_Witness ==
    /\ calc.fn = "priority"
    /\ calc.word.shown_times = 2
    /\ calc.word.difficulty = 25
    /\ ~wasLastCorrect(calc.word)
    /\ calc.t - calc.word.last_shown_timestamp = 200 * BaseInterval
    /\ calc.priority.i = 35
    /\ calc.priority.q = 11428 + 20 * (10 + 5 + 2) + 25
    /\ calc.priority.r = 20

(* C17: every entry of one selection is scored against the same current    *)
(* time.                                                                   *)
C17_ScoredAtOneTime ==
    \A i \in 1..Len(scan.scored), j \in 1..Len(scan.scored) :
        scan.scored[i].at = scan.scored[j].at

(* C18: an update reported for a word string that differs from a stored    *)
(* record's word in letter case only finds and updates that record.        *)
C18_CaseInsensitiveLookup ==
    ( /\ lastOp.op = "update"
      /\ \E k \in 1..Len(store) :
            toLowerCase(store[k].word) = toLowerCase(lastOp.word) )
    => (lastOp.idx > 0 /\ lastOp.wrote)

(* C19: every record's word is non-empty and no two records of the         *)
(* collection have the same word, compared without regard to letter case.  *)
C19_WordsUniqueNonEmpty ==
    /\ \A k \in 1..Len(store) : store[k].word # ""
    /\ AddedOnly =>
           \A i \in 1..Len(store), j \in 1..Len(store) :
               i # j => toLowerCase(store[i].word) # toLowerCase(store[j].word)

(* C20: for a difficulty below 1.0 or above 5.0 the interval model and     *)
(* priority scoring return what they return for the difficulty clamped     *)
(* into [1.0, 5.0].                                                        *)
C20_ClampedDefensively ==
    LET clamp(d) == IF d < 10 THEN 10 ELSE IF d > 50 THEN 50 ELSE d
    IN /\ calc.fn = "interval" =>
              calc.interval = calculateNextInterval(clamp(calc.difficulty),
                                  calc.shownTimes, calc.wasCorrect)
       /\ calc.fn = "priority" =>
              calc.priority =
                  calculateWordPriority(
                      [calc.word EXCEPT !.difficulty = clamp(@)], calc.t)

(* C21: among the records that share the maximum priority, selection       *)
(* returns the one that comes first in the order of the collection: at one *)
(* of the times the selection read, the record returned has the maximum    *)
(* priority and every record before it has a smaller one.                  *)
C21_FirstOfTheMaxima ==
    (Selected /\ Len(store) > 0) =>
        \E t \in Reads : \E k \in 1..Len(store) :
            /\ lastOp.result = store[k]
            /\ \A j \in 1..Len(store) :
                   PriorityGeq(PriorityAt(k, t), PriorityAt(j, t))
            /\ \A j \in 1..(k - 1) :
                   PriorityLess(PriorityAt(j, t), PriorityAt(k, t))

(* C22: a selection changes no field of any stored record and does not     *)
(* add, remove or reorder records.                                         *)
C22_SelectionReadOnly ==
    [][lastOp'.op = "select" => store' = store]_vars

C22_Witness ==
    /\ Selected
    /\ Len(store) = 2
    /\ store[1].shown_times > 0
    /\ store[2].shown_times = 0
    /\ lastOp.result = store[2]

(* C23: an update of a word that is found changes the record at one index  *)
(* only: the number of records, their order and every other record stay    *)
(* as they were, and the updated record keeps its id, word, definition and *)
(* example.                                                                *)
C23_UpdatesOneRecord ==
    [][(lastOp'.op = "update" /\ lastOp'.idx > 0) =>
          /\ Len(store') = Len(store)
          /\ \A k \in 1..Len(store) :
                 k # lastOp'.idx => store'[k] = store[k]
          /\ store'[lastOp'.idx].id = store[lastOp'.idx].id
          /\ store'[lastOp'.idx].word = store[lastOp'.idx].word
          /\ store'[lastOp'.idx].definition = store[lastOp'.idx].definition
          /\ store'[lastOp'.idx].example = store[lastOp'.idx].example]_vars

C23_Witness ==
    /\ Updated
    /\ Len(store) = 2
    /\ store[1].word = store[2].word
    /\ lastOp.idx = 1
    /\ After.definition # ""
    /\ After.shown_times = 2
    /\ store[2].shown_times = 0

(* C25: for updates at non-decreasing times every record has               *)
(* last_correct_timestamp <= last_shown_timestamp.                         *)
C25_CorrectNotAfterShown ==
    \A k \in 1..Len(store) :
        store[k].last_correct_timestamp <= store[k].last_shown_timestamp

C25_Witness ==
    \E k \in 1..Len(store) :
        /\ store[k].shown_times >= 3
        /\ store[k].last_correct_timestamp > 0
        /\ store[k].last_correct_timestamp < store[k].last_shown_timestamp
        /\ hist[k].lastOutcome = "incorrect"

(* C26: a record has shown_times = 0 exactly when its last_shown_timestamp *)
(* is 0.                                                                   *)
C26_NeverShownAgree ==
    \A k \in 1..Len(store) :
        store[k].shown_times = 0 <=> store[k].last_shown_timestamp = 0

C26_Witness ==
    \E k \in 1..Len(store) :
        /\ store[k].shown_times = 1
        /\ store[k].last_shown_timestamp = now
        /\ store[k].last_correct_timestamp = 0
        /\ hist[k].lastOutcome = "incorrect"

(* C28 as stated: a record with a difficulty in [1.0, 5.0] whose most      *)
(* recent outcome was incorrect has an expected interval shorter than the  *)
(* interval of the same difficulty and shown_times after a correct answer. *)
C28_MissShortensInterval ==
    \A k \in 1..Len(store) :
        ( /\ hist[k].lastOutcome = "incorrect"
          /\ store[k].difficulty >= 10 /\ store[k].difficulty <= 50 )
        => calculateNextInterval(store[k].difficulty, store[k].shown_times,
                                 wasLastCorrect(store[k]))
           < calculateNextInterval(store[k].difficulty, store[k].shown_times,
                                   TRUE)

(* C28 amended: the same for records whose updates came at strictly        *)
(* increasing times.                                                       *)
C28_MissShortensIntervalStrictTimes ==
    \A k \in 1..Len(store) :
        ( /\ hist[k].strict
          /\ hist[k].lastOutcome = "incorrect"
          /\ store[k].difficulty >= 10 /\ store[k].difficulty <= 50 )
        => calculateNextInterval(store[k].difficulty, store[k].shown_times,
                                 wasLastCorrect(store[k]))
           < calculateNextInterval(store[k].difficulty, store[k].shown_times,
                                   TRUE)

C28_Witness ==
    \E k \in 1..Len(store) :
        /\ hist[k].strict
        /\ hist[k].lastOutcome = "incorrect"
        /\ store[k].difficulty = 50
        /\ store[k].shown_times = 1
        /\ calculateNextInterval(50, 1, wasLastCorrect(store[k]))
               = (6 * BaseInterval) \div 10

(* C29: the priority contains the +5 term exactly when the flag            *)
(* last_correct_timestamp >= last_shown_timestamp is false: the score is   *)
(* the sum of C16 with the second condition of the +5 term left out.       *)
C29_MissBonusIffFlagFalse ==
    calc.fn = "priority" =>
        LET word == calc.word
            sinceShown == calc.t - word.last_shown_timestamp
            lastCorrect == word.last_correct_timestamp
                               >= word.last_shown_timestamp
            new == IF word.shown_times = 0 THEN 100
                   ELSE IF word.shown_times < 3 THEN 10 ELSE 0
            missed == IF ~lastCorrect THEN 5 ELSE 0
            long == IF sinceShown > 180 * BaseInterval THEN 2 ELSE 0
            p == calc.priority
        IN p.q * p.i + p.r =
               20 * sinceShown
               + p.i * (20 * (new + missed + long) + word.difficulty)

C29_Witness ==
    /\ calc.fn = "priority"
    /\ calc.word.shown_times >= 3
    /\ calc.word.last_correct_timestamp > 0
    /\ calc.word.last_correct_timestamp < calc.word.last_shown_timestamp
    /\ calc.t = calc.word.last_shown_timestamp
    /\ calc.priority.q = 20 * 5 + calc.word.difficulty

(* C24: the learn page presents the judge step for a selected record with  *)
(* shown_times 0 and no other record, free recall or multiple choice (once *)
(* the generator has answered) for a record with shown_times >= 1, and the *)
(* done state exactly when selection returned no record; no update follows *)
(* from the done state.                                                    *)
C24_ModalityFromShownTimes ==
    /\ [](page.type = "judge" =>
              (page.word # NoWord /\ page.word.shown_times = 0))
    /\ [](page.type \in {"input_meaning", "multiple"} =>
              page.word.shown_times >= 1)
    /\ [](lastOp.op = "initialize" =>
              /\ page.word = lastOp.result
              /\ page.type = "done" <=> lastOp.result = NoWord
              /\ page.type = "judge" <=>
                     (lastOp.result # NoWord
                      /\ lastOp.result.shown_times = 0)
              /\ page.type \in {"done", "judge", "input_meaning", "loading"}
              /\ page.type = "loading" => page.wait = "choices")
    /\ [][page.wait = "choices" /\ page' # page =>
              /\ page'.word = page.word
              /\ page'.type \in {"input_meaning", "multiple"}]_vars
    /\ [][page'.type = "done" /\ page.type # "done" =>
              lastOp'.op = "initialize"]_vars
    /\ [][page.type = "done" => (store' = store /\ page' = page)]_vars

C24_Witness ==
    /\ lastOp.op = "choices"
    /\ page.type = "multiple"
    /\ page.options = 4
    /\ page.word.shown_times = 1
    /\ Len(store) = 2
    /\ \A k \in 1..Len(store) : store[k].shown_times = 1

(* C27: starting from records that were never shown, with the clock moving *)
(* on by less than five years in all and every page load reporting one     *)
(* outcome for the record selection gave it, no record is shown a second   *)
(* time while another record has not been shown once.                      *)
C27_EachShownOnceFirst ==
    (calls.repeats = 0
     /\ \E k \in 1..Len(store) : store[k].shown_times >= 2)
    => \A k \in 1..Len(store) : store[k].shown_times >= 1

(* C30: a multiple-choice step the learn page presents offers at least one *)
(* option.                                                                 *)
C30_MultipleHasOption ==
    page.type = "multiple" => page.options >= 1

TypeOK ==
    /\ Len(hist) = Len(store)
    /\ now >= StartNow
====
